---------------------------- MODULE Spec2Model ----------------------------
(***************************************************************************)
(* Model of the MLC analyser engine of mlc_analyzer_gui.py:                *)
(*   extract_nominal_from_bank_name, parse_mlc_data, analyze_data and the  *)
(*   control flow of App.run_analysis_and_report around them.              *)
(*                                                                         *)
(* Strings are sequences of one-character strings, so that str.lower,      *)
(* str.strip, float() and the comparison with the recognised labels are    *)
(* computed character by character.  A Python float is a record            *)
(* [nan |-> BOOLEAN, v |-> Int]; v counts units of 1/Res millimetre.       *)
(* Arithmetic is exact (binary rounding of IEEE doubles is not modelled);  *)
(* Res is chosen so that the mean of up to MaxSamples one-decimal values   *)
(* is an integer number of units.                                          *)
(***************************************************************************)
EXTENDS Integers, Sequences, FiniteSets, TLC

\* ------------------------------------------------------------------ bounds
MaxRows == 4        \* rows read from the CSV file
MaxRuns == 3        \* samples per leaf handed directly to analyze_data

\* --------------------------------------------------------------- constants
NUM_LEAVES == 80

RECURSIVE Fact(_)
Fact(n) == IF n <= 1 THEN 1 ELSE n * Fact(n - 1)

MaxSamples == IF MaxRuns > MaxRows THEN MaxRuns ELSE MaxRows
Res == 10 * Fact(MaxSamples)

\* ----------------------------------------------------------------- strings
sName  == <<"N","a","m","e">>
sValue == <<"V","a","l","u","e">>
sUnit  == <<"U","n","i","t">>
sType  == <<"T","y","p","e">>
sInputId == <<"I","n","p","u","t","I","d">>
sMm    == <<"m","m">>
sString == <<"S","t","r","i","n","g">>
sEmpty == << >>
sLeft  == <<"L","e","f","t">>
sRight == <<"R","i","g","h","t">>
sMLCBank == <<" ","M","L","C"," ","B","a","n","k"," ">>
sBank100 == <<"B","a","n","k"," ","1","0","0">>

UpperChars == <<"A","B","C","D","E","F","G","H","I","J","K","L","M",
                "N","O","P","Q","R","S","T","U","V","W","X","Y","Z">>
LowerChars == <<"a","b","c","d","e","f","g","h","i","j","k","l","m",
                "n","o","p","q","r","s","t","u","v","w","x","y","z">>
DigitChars == <<"0","1","2","3","4","5","6","7","8","9">>
Whitespace == {" ", "\t", "\n", "\r", "\f"}

IsDigit(c) == \E i \in 1..10 : DigitChars[i] = c
DigitVal(c) == (CHOOSE i \in 1..10 : DigitChars[i] = c) - 1

\* str.lower()
LowerChar(c) ==
    IF \E i \in 1..26 : UpperChars[i] = c
    THEN LowerChars[CHOOSE i \in 1..26 : UpperChars[i] = c]
    ELSE c
Lower(s) == [i \in 1..Len(s) |-> LowerChar(s[i])]

\* str.strip()
RECURSIVE LStrip(_)
LStrip(s) == IF s # << >> /\ Head(s) \in Whitespace THEN LStrip(Tail(s)) ELSE s
RECURSIVE RStrip(_)
RStrip(s) ==
    IF s # << >> /\ s[Len(s)] \in Whitespace THEN RStrip(SubSeq(s, 1, Len(s) - 1)) ELSE s
Strip(s) == RStrip(LStrip(s))

\* substring test: needle in hay
Contains(hay, needle) ==
    \E i \in 1..(Len(hay) - Len(needle) + 1) :
        SubSeq(hay, i, i + Len(needle) - 1) = needle

\* ------------------------------------------------------------------ floats
NaN == [nan |-> TRUE, v |-> 0]
Num(x) == [nan |-> FALSE, v |-> x]
IsNaN(f) == f.nan
Mm(tenths) == Num(tenths * (Res \div 10))

RECURSIVE Pow10(_)
Pow10(k) == IF k = 0 THEN 1 ELSE 10 * Pow10(k - 1)

RECURSIVE DigitsVal(_)
DigitsVal(s) == IF s = << >> THEN 0 ELSE 10 * DigitsVal(SubSeq(s, 1, Len(s) - 1)) + DigitVal(s[Len(s)])

AllDigits(s) == \A i \in 1..Len(s) : IsDigit(s[i])

\* the unsigned decimal literals float() accepts here: d+, d+., d+.d+, .d+
\* (exponents, underscores, inf and hexadecimal forms are outside the
\* vocabulary of the modelled files)
IsDecimal(s) ==
    /\ s # << >>
    /\ \E i \in 1..(Len(s) + 1) :
          /\ i <= Len(s) => s[i] = "."
          /\ AllDigits(SubSeq(s, 1, i - 1))
          /\ AllDigits(SubSeq(s, i + 1, Len(s)))
          /\ (i - 1) + (Len(s) - i) >= 1 \/ (i = Len(s) + 1)
DecimalVal(s) ==
    LET i == CHOOSE j \in 1..(Len(s) + 1) :
                 /\ j <= Len(s) => s[j] = "."
                 /\ AllDigits(SubSeq(s, 1, j - 1))
        ip == SubSeq(s, 1, i - 1)
        fp == SubSeq(s, i + 1, Len(s))
    IN  DigitsVal(ip) * Res + (DigitsVal(fp) * Res) \div Pow10(Len(fp))

\* float(): [ok |-> FALSE] stands for ValueError
Float(str) ==
    LET s == Strip(str)
        signed == s # << >> /\ s[1] \in {"+", "-"}
        body == IF signed THEN Tail(s) ELSE s
        neg == signed /\ s[1] = "-"
    IN  IF Lower(body) = <<"n","a","n">> THEN [ok |-> TRUE, val |-> NaN]
        ELSE IF IsDecimal(body)
             THEN [ok |-> TRUE,
                   val |-> Num(IF neg THEN 0 - DecimalVal(body) ELSE DecimalVal(body))]
             ELSE [ok |-> FALSE, val |-> NaN]


\* ---------------------------------------------------- dicts (insertion order)
\* a Python dict is the sequence of its items [k, v] in insertion order
DictHas(d, key) == \E i \in 1..Len(d) : d[i].k = key
DictGet(d, key) == d[CHOOSE i \in 1..Len(d) : d[i].k = key].v
\* mutant: an existing item is kept (dict.setdefault)
DictSet_KeepFirst(d, key, val) ==
    IF DictHas(d, key) THEN d ELSE Append(d, [k |-> key, v |-> val])
DictSet(d, key, val) ==
    IF DictHas(d, key)
    THEN [i \in 1..Len(d) |-> IF d[i].k = key THEN [k |-> key, v |-> val] ELSE d[i]]
    ELSE Append(d, [k |-> key, v |-> val])
DictKeys(d) == [i \in 1..Len(d) |-> d[i].k]

\* ------------------------------------------------------- recognised labels
BankLabel(side, suffix) == side \o sMLCBank \o suffix
Suffixes == << <<"+","2","0">>, <<"+","6","0">>, <<"1","0","0">>,
               <<"-","2","0">>, <<"-","6","0">> >>
target_rows ==
    {BankLabel(sLeft, Suffixes[i]) : i \in 1..5} \cup {BankLabel(sRight, Suffixes[i]) : i \in 1..5}

\* ------------------------------------------------------------ input rows
\* The rows csv.reader can hand to the loop are drawn from RowKinds; Cells
\* gives the cells of each kind.
RECURSIVE DecStr(_)
DecStr(n) == IF n < 10 THEN <<DigitChars[n + 1]>>
             ELSE Append(DecStr(n \div 10), DigitChars[(n % 10) + 1])
\* the text of a value given in tenths of a millimetre, e.g. -699 -> "-69.9"
FmtTenths(t) ==
    LET a == IF t < 0 THEN 0 - t ELSE t
    IN  (IF t < 0 THEN <<"-">> ELSE << >>) \o DecStr(a \div 10) \o <<".">> \o DecStr(a % 10)
ValueCells(n, base) == [i \in 1..n |-> FmtTenths(base + i)]
BankCells(label, values) == <<label>> \o values \o <<sMm, sString, <<"1">>>>

LeftP20 == BankLabel(sLeft, Suffixes[1])
RightM60 == BankLabel(sRight, Suffixes[5])
sInvalid == <<"i","n","v","a","l","i","d">>
BadLeaf == 2      \* the cell of the "invalid" row that holds the non-numeric token

\* the indentation in front of the second and third line of the file of
\* test_parse_mlc_data_invalid_numeric
Indent == <<" "," "," "," "," "," "," "," ">>

RowKinds == {"blank", "header", "other", "name_only", "full", "short", "long",
             "invalid", "novalues", "indented", "spaces"}
Cells(kind) ==
    CASE kind = "blank"     -> <<sEmpty, sEmpty, sEmpty, sEmpty, sEmpty>>
      [] kind = "header"    -> <<sName, sValue, sUnit, sType, sInputId>>
      [] kind = "other"     -> << <<"P","A","S","S">> >>
      [] kind = "name_only" -> <<sName>>
      [] kind = "full"      -> BankCells(LeftP20, ValueCells(NUM_LEAVES, 200))
      [] kind = "short"     -> BankCells(LeftP20,
                                 << <<"2","1",".","0">>, sEmpty,
                                    <<" ","2","1",".","1"," ">>, <<" "," ">> >>)
      [] kind = "long"      -> BankCells(RightM60, ValueCells(NUM_LEAVES + 1, -700))
      [] kind = "invalid"   -> BankCells(LeftP20,
                                 [i \in 1..NUM_LEAVES |->
                                    IF i = BadLeaf THEN sInvalid ELSE FmtTenths(200 + i)])
      [] kind = "novalues"  -> <<RightM60, <<"M","M">>, sString, <<"2">>>>
      [] kind = "indented"  -> BankCells(Indent \o LeftP20,
                                 [i \in 1..NUM_LEAVES |->
                                    IF i = BadLeaf THEN sInvalid
                                    ELSE IF i = 1 THEN FmtTenths(201)
                                    ELSE IF i = 3 THEN FmtTenths(203)
                                    ELSE FmtTenths(204)])
      [] kind = "spaces"    -> <<Indent>>


\* ------------------------------------------------------- parse_mlc_data
NanVector == [i \in 1..NUM_LEAVES |-> NaN]

\* any(row)
AnyCell(row) == \E i \in 1..Len(row) : row[i] # sEmpty

\* lines 65-68: the cells after the label, up to the first cell whose
\* lower-case form is "mm", stripped, empty ones dropped
CollectValues(items) ==
    LET stop == IF \E i \in 1..Len(items) : Lower(items[i]) = sMm
                THEN CHOOSE i \in 1..Len(items) :
                         /\ Lower(items[i]) = sMm
                         /\ \A j \in 1..(i - 1) : Lower(items[j]) # sMm
                ELSE Len(items) + 1
        NonEmpty(c) == c # sEmpty
    IN  SelectSeq([i \in 1..(stop - 1) |-> Strip(items[i])], NonEmpty)

\* mutant: the vector is padded but never cut to NUM_LEAVES
PadTruncate_NoSlice(leaf_positions) ==
    [i \in 1..(IF Len(leaf_positions) > NUM_LEAVES THEN Len(leaf_positions) ELSE NUM_LEAVES) |->
        IF i <= Len(leaf_positions) THEN leaf_positions[i] ELSE NaN]

\* lines 77-82: pad with NaN to NUM_LEAVES, keep the first NUM_LEAVES
PadTruncate(leaf_positions) ==
    [i \in 1..NUM_LEAVES |->
        IF i <= Len(leaf_positions) THEN leaf_positions[i] ELSE NaN]

\* mutant: a token that is not a number costs its own leaf only
BankRowResult_Partial(row) ==
    LET values_str_list == CollectValues(Tail(row))
        conv == [i \in 1..Len(values_str_list) |-> Float(values_str_list[i])]
    IN  IF values_str_list = << >>
        THEN [vec |-> NanVector, msgs |-> <<"Warning: No numeric values found.">>]
        ELSE [vec |-> PadTruncate([i \in 1..Len(conv) |-> conv[i].val]),
              msgs |-> IF Len(conv) # NUM_LEAVES
                       THEN <<"Warning: Padding/truncating.">> ELSE << >>]

\* lines 63-90: the vector stored for a recognised bank row and the messages
\* handed to status_callback
BankRowResult(row) ==
    LET values_str_list == CollectValues(Tail(row))
        conv == [i \in 1..Len(values_str_list) |-> Float(values_str_list[i])]
    IN  IF values_str_list = << >>
        THEN [vec |-> NanVector, msgs |-> <<"Warning: No numeric values found.">>]
        ELSE IF \E i \in 1..Len(conv) : ~conv[i].ok
        THEN [vec |-> NanVector, msgs |-> <<"Error converting value">>]
        ELSE [vec |-> PadTruncate([i \in 1..Len(conv) |-> conv[i].val]),
              msgs |-> IF Len(conv) # NUM_LEAVES
                       THEN <<"Warning: Padding/truncating.">> ELSE << >>]

\* BankRowResult tabulated over the rows of the vocabulary (evaluated once)
BankRowTable == [row \in {Cells(k) : k \in RowKinds} |-> BankRowResult(row)]

\* mutant: a header emits the accumulator whatever it holds
HeaderRow_AlwaysEmit(ps, row) ==
    [ps EXCEPT !.all_runs_data =
                   IF ps.header # << >>
                   THEN Append(ps.all_runs_data, ps.current_run_data) ELSE @,
               !.run_count = IF ps.header # << >> THEN @ + 1 ELSE @,
               !.current_run_data = << >>,
               !.header = row]

\* lines 56-61: a header row
HeaderRow(ps, row) ==
    [ps EXCEPT !.all_runs_data =
                   IF ps.current_run_data # << >>
                   THEN Append(ps.all_runs_data, ps.current_run_data) ELSE @,
               !.run_count = IF ps.current_run_data # << >> THEN @ + 1 ELSE @,
               !.current_run_data = << >>,
               !.header = row]

\* lines 62-90: a recognised bank row after a header
BankRow(ps, row) ==
    LET r == BankRowTable[row]
    IN  [ps EXCEPT !.current_run_data = DictSet(@, row[1], r.vec),
                   !.status = @ \o r.msgs]

\* lines 94-96: the handler around the whole scan
FailedMsg(e) ==
    IF e = "IOError" THEN "Failed to read or parse CSV: IOError"
    ELSE "Failed to read or parse CSV: IndexError"
\* mutant: the handler reports the failure and does not re-raise
ParseExcept_Swallow(ps, e) ==
    [ps EXCEPT !.status = Append(@, FailedMsg(e))]

ParseExcept(ps, e) ==
    [ps EXCEPT !.status = Append(@, FailedMsg(e)), !.exc = e]

\* mutant: a recognised bank row counts before any header too
ScanRow_NoHeaderGuard(ps, row) ==
    IF ~AnyCell(row) THEN ps
    ELSE IF row[1] = sName /\ Len(row) < 2 THEN ParseExcept(ps, "IndexError")
    ELSE IF row[1] = sName /\ row[2] = sValue THEN HeaderRow(ps, row)
    ELSE IF row[1] \in target_rows THEN BankRow(ps, row)
    ELSE ps

\* lines 53-90: the body of the loop over the rows, for one row.
\* row[0], row[1] of the code are row[1], row[2] here.
ScanRow(ps, row) ==
    IF ~AnyCell(row) THEN ps
    ELSE IF row[1] = sName /\ Len(row) < 2 THEN ParseExcept(ps, "IndexError")
    ELSE IF row[1] = sName /\ row[2] = sValue THEN HeaderRow(ps, row)
    ELSE IF ps.header # << >> /\ row[1] \in target_rows THEN BankRow(ps, row)
    ELSE ps

\* mutant: the last block is emitted only by a header
EndOfRows_NoFlush(ps) == ps

\* lines 91-93: after the last row
EndOfRows(ps) ==
    IF ps.current_run_data # << >>
    THEN [ps EXCEPT !.all_runs_data = Append(@, ps.current_run_data),
                    !.run_count = @ + 1]
    ELSE ps

\* mutant: a run without the bank appends nothing
BankSamples_SkipAbsent(all_runs_data, bank_name) ==
    LET Present(run) == DictHas(run, bank_name)
        with == SelectSeq(all_runs_data, Present)
    IN  [leaf \in 1..NUM_LEAVES |->
            [i \in 1..Len(with) |-> DictGet(with[i], bank_name)[leaf]]]

\* lines 110-120: the samples of one bank, leaf by leaf and run by run; a run
\* without the bank, or with a vector that is too short, gives NaN
BankSamples(all_runs_data, bank_name) ==
    LET num_actual_runs == Len(all_runs_data)
        Present(run) == DictHas(all_runs_data[run], bank_name)
        has == SubSeq([run \in 1..num_actual_runs |-> Present(run)], 1, num_actual_runs)
        vecs == SubSeq([run \in 1..num_actual_runs |->
                          IF has[run] THEN DictGet(all_runs_data[run], bank_name) ELSE << >>],
                       1, num_actual_runs)
    IN  [leaf \in 1..NUM_LEAVES |->
            [run \in 1..num_actual_runs |->
                IF has[run] /\ leaf <= Len(vecs[run]) THEN vecs[run][leaf] ELSE NaN]]

\* mutant: the reference banks are those of the last run
Organize_LastRunKeys(all_runs_data) ==
    LET num_actual_runs == Len(all_runs_data)
    IN  IF all_runs_data = << >>
        THEN [data |-> << >>, runs |-> 0,
              msgs |-> <<"Warning: No data blocks parsed.">>]
        ELSE IF num_actual_runs > 0 /\ all_runs_data[1] # << >>
        THEN [data |->
                [b \in 1..Len(all_runs_data[num_actual_runs]) |->
                    [k |-> all_runs_data[num_actual_runs][b].k,
                     v |-> BankSamples(all_runs_data, all_runs_data[num_actual_runs][b].k)]],
              runs |-> num_actual_runs,
              msgs |-> <<"Parsed data for runs.", "CSV parsing complete.">>]
        ELSE [data |-> << >>, runs |-> 0,
              msgs |-> <<"Parsed data for runs.", "Warning: No valid run data to organize.">>]

\* lines 98-125: the aggregation and the value returned
Organize(all_runs_data) ==
    LET num_actual_runs == Len(all_runs_data)
    IN  IF all_runs_data = << >>
        THEN [data |-> << >>, runs |-> 0,
              msgs |-> <<"Warning: No data blocks parsed.">>]
        ELSE IF num_actual_runs > 0 /\ all_runs_data[1] # << >>
        THEN [data |->
                [b \in 1..Len(all_runs_data[1]) |->
                    [k |-> all_runs_data[1][b].k,
                     v |-> BankSamples(all_runs_data, all_runs_data[1][b].k)]],
              runs |-> num_actual_runs,
              msgs |-> <<"Parsed data for runs.", "CSV parsing complete.">>]
        ELSE [data |-> << >>, runs |-> 0,
              msgs |-> <<"Parsed data for runs.", "Warning: No valid run data to organize.">>]

\* ------------------------------------------- extract_nominal_from_bank_name
\* re.search(r'([+-]?\d+)$', s): the maximal run of digits that ends the
\* string (or ends just before a final newline, where $ also matches), with
\* the sign character in front of it if there is one; int() of that text.
\* [ok |-> FALSE] stands for ValueError.
\* mutant: re.match in place of re.search (the pattern must match from the
\* first character)
extract_nominal_Match(bank_name_str) ==
    LET s == bank_name_str
        signed == s # << >> /\ s[1] \in {"+", "-"}
        digits == IF signed THEN Tail(s) ELSE s
    IN  IF digits # << >> /\ AllDigits(digits)
        THEN [ok |-> TRUE,
              val |-> IF signed /\ s[1] = "-" THEN 0 - DigitsVal(digits) ELSE DigitsVal(digits)]
        ELSE IF Contains(bank_name_str, <<"1","0","0">>) /\ Contains(bank_name_str, sBank100)
        THEN [ok |-> TRUE, val |-> 100]
        ELSE [ok |-> FALSE, val |-> 0]

extract_nominal_from_bank_name(bank_name_str) ==
    LET s == IF bank_name_str # << >> /\ bank_name_str[Len(bank_name_str)] = "\n"
                  /\ Len(bank_name_str) > 1 /\ IsDigit(bank_name_str[Len(bank_name_str) - 1])
             THEN SubSeq(bank_name_str, 1, Len(bank_name_str) - 1)
             ELSE bank_name_str
        n == CHOOSE k \in 0..Len(s) :
                /\ AllDigits(SubSeq(s, Len(s) - k + 1, Len(s)))
                /\ k < Len(s) => ~IsDigit(s[Len(s) - k])
        digits == SubSeq(s, Len(s) - n + 1, Len(s))
        neg == n < Len(s) /\ s[Len(s) - n] = "-"
    IN  IF n > 0
        THEN [ok |-> TRUE, val |-> IF neg THEN 0 - DigitsVal(digits) ELSE DigitsVal(digits)]
        ELSE IF Contains(bank_name_str, <<"1","0","0">>) /\ Contains(bank_name_str, sBank100)
        THEN [ok |-> TRUE, val |-> 100]
        ELSE [ok |-> FALSE, val |-> 0]

\* ------------------------------------------------------------ analyze_data
RECURSIVE SumV(_)
SumV(xs) == IF xs = << >> THEN 0 ELSE Head(xs).v + SumV(Tail(xs))
RECURSIVE SumSq(_, _)
SumSq(xs, m) == IF xs = << >> THEN 0 ELSE (Head(xs).v - m) * (Head(xs).v - m) + SumSq(Tail(xs), m)
MinV(xs) == CHOOSE m \in {xs[i].v : i \in 1..Len(xs)} : \A i \in 1..Len(xs) : m <= xs[i].v
MaxV(xs) == CHOOSE m \in {xs[i].v : i \in 1..Len(xs)} : \A i \in 1..Len(xs) : m >= xs[i].v
Abs(x) == IF x < 0 THEN 0 - x ELSE x

\* floor of the square root, by bisection on lo..hi
RECURSIVE Bisect(_, _, _)
Bisect(x, lo, hi) ==
    IF lo >= hi THEN lo
    ELSE LET mid == (lo + hi + 1) \div 2
         IN  IF mid * mid <= x THEN Bisect(x, mid, hi) ELSE Bisect(x, lo, mid - 1)
Isqrt(x) == Bisect(x, 0, 40000)

NotNaN(f) == ~IsNaN(f)

\* mutant: the sample standard deviation (divisor N - 1)
StdDev_Sample(valid) ==
    LET m == MinV(valid)
        n == Len(valid)
        sd == SumV(valid) - n * m
    IN  Num(Isqrt((n * SumSq(valid, m) - sd * sd) \div (n * (n - 1))))

\* line 156: np.mean
Mean(valid) == Num(SumV(valid) \div Len(valid))
\* line 159: np.std (population standard deviation, divisor N), taken about
\* the smallest sample: sqrt(N*sum(d^2) - sum(d)^2) / N
StdDev(valid) ==
    LET m == MinV(valid)
        n == Len(valid)
        sd == SumV(valid) - n * m
    IN  Num(Isqrt(n * SumSq(valid, m) - sd * sd) \div n)
\* line 160: np.ptp
Ptp(valid) == Num(MaxV(valid) - MinV(valid))

\* mutant: a deviation equal to the tolerance is flagged
OutOfTolerance_Inclusive(deviation, tol) ==
    IF ~IsNaN(deviation) THEN Abs(deviation.v) >= tol.v ELSE FALSE

\* line 165
OutOfTolerance(deviation, tol) ==
    IF ~IsNaN(deviation) THEN Abs(deviation.v) > tol.v ELSE FALSE

\* mutant: a plain else in place of the test for a single measurement
LeafSpread_ElseZero(valid_measurements) ==
    IF Len(valid_measurements) > 1
    THEN [std_dev |-> StdDev(valid_measurements), positional_range |-> Ptp(valid_measurements)]
    ELSE [std_dev |-> Num(0), positional_range |-> Num(0)]

\* mutant: no branch for a single measurement
LeafSpread_NoSingle(valid_measurements) ==
    IF Len(valid_measurements) > 1
    THEN [std_dev |-> StdDev(valid_measurements), positional_range |-> Ptp(valid_measurements)]
    ELSE [std_dev |-> NaN, positional_range |-> NaN]

\* lines 152-163: standard deviation and range of the valid measurements
LeafSpread(valid_measurements) ==
    IF Len(valid_measurements) > 1
    THEN [std_dev |-> StdDev(valid_measurements), positional_range |-> Ptp(valid_measurements)]
    ELSE IF Len(valid_measurements) = 1
    THEN [std_dev |-> Num(0), positional_range |-> Num(0)]
    ELSE [std_dev |-> NaN, positional_range |-> NaN]

\* lines 149-176: the analysis row of one leaf (leaf_idx counts from 0)
AnalyzeLeaf(bank_name, nominal_setpoint, leaf_idx, measurements, tol) ==
    LET valid_measurements == SelectSeq(measurements, NotNaN)
        n == Len(valid_measurements)
        mean_pos == IF n > 0 THEN Mean(valid_measurements) ELSE NaN
        deviation == IF n > 0 THEN Num(mean_pos.v - nominal_setpoint * Res) ELSE NaN
        spread == LeafSpread(valid_measurements)
    IN  [Bank |-> bank_name,
         LeafIndex |-> leaf_idx,
         LeafID |-> <<IF Contains(bank_name, sLeft) THEN "L" ELSE "R", leaf_idx + 1>>,
         Nominal |-> nominal_setpoint,
         Measurements |-> valid_measurements,
         Mean |-> mean_pos,
         StdDev |-> spread.std_dev,
         Deviation |-> deviation,
         Range |-> spread.positional_range,
         OutOfTolerance |-> OutOfTolerance(deviation, tol)]

\* lines 177-182: the entries a row adds to the three lists
DeviationEntry(r) == [LeafID |-> r.LeafID, Bank |-> r.Bank, Value |-> Num(Abs(r.Deviation.v))]
StdEntry(r) == [LeafID |-> r.LeafID, Bank |-> r.Bank, Value |-> r.StdDev]
RangeEntry(r) == [LeafID |-> r.LeafID, Bank |-> r.Bank, Value |-> r.Range]

\* lines 185-189: sorted(..., key=Value, reverse=True) keeps entries of equal
\* key in their order.  SortSeq is an insertion sort: with a strict
\* comparison an entry moves only past entries of strictly smaller key.
\* mutant: entries of equal key change places
KeyGreater_OrEqual(a, b) == a.Value.v >= b.Value.v
KeyGreater(a, b) == a.Value.v > b.Value.v
EntryDefined(e) == ~IsNaN(e.Value)
Ranked(entries) == SortSeq(SelectSeq(entries, EntryDefined), KeyGreater)

\* lines 130-192.  [exc |-> "IndexError"] when a bank has fewer than
\* NUM_LEAVES sample lists (list_of_leaf_runs[leaf_idx], line 149).
analyze_data(parsed_data, num_runs, tol) ==
    IF num_runs = 0
    THEN [returned |-> TRUE, exc |-> "none", df |-> << >>,
          ranked_inaccurate |-> << >>, ranked_imprecise |-> << >>,
          ranked_by_range |-> << >>,
          msgs |-> <<"Analyzing data...", "No runs to analyze.">>]
    ELSE
    LET NominalOk(item) == extract_nominal_from_bank_name(item.k).ok
        banks == SelectSeq(parsed_data, NominalOk)
        skipped == Len(parsed_data) - Len(banks)
        results == [i \in 1..(Len(banks) * NUM_LEAVES) |->
                      LET item == banks[((i - 1) \div NUM_LEAVES) + 1]
                          leaf_idx == (i - 1) % NUM_LEAVES
                      IN  AnalyzeLeaf(item.k, extract_nominal_from_bank_name(item.k).val,
                                      leaf_idx, item.v[leaf_idx + 1], tol)]
        HasDev(r) == ~IsNaN(r.Deviation)
        HasStd(r) == ~IsNaN(r.StdDev)
        HasRange(r) == ~IsNaN(r.Range)
        devRows == SelectSeq(results, HasDev)
        stdRows == SelectSeq(results, HasStd)
        rngRows == SelectSeq(results, HasRange)
        all_deviations == [i \in 1..Len(devRows) |-> DeviationEntry(devRows[i])]
        all_stds == [i \in 1..Len(stdRows) |-> StdEntry(stdRows[i])]
        all_ranges == [i \in 1..Len(rngRows) |-> RangeEntry(rngRows[i])]
    IN  IF \E b \in 1..Len(banks) : Len(banks[b].v) < NUM_LEAVES
        THEN [returned |-> FALSE, exc |-> "IndexError"]
        ELSE [returned |-> TRUE, exc |-> "none", df |-> results,
              ranked_inaccurate |-> Ranked(all_deviations),
              ranked_imprecise |-> Ranked(all_stds),
              ranked_by_range |-> Ranked(all_ranges),
              msgs |-> <<"Analyzing data...">>
                       \o [i \in 1..skipped |-> "Skipping bank"]
                       \o <<"Data analysis complete.">>]

\* ------------------------------------------------------------------ state
VARIABLES
    caller,            \* "App": App.run_analysis_and_report; "direct": parse_mlc_data
                       \* then analyze_data called one after the other, as the tests do
    pc,                \* position of the thread of control
    rows,              \* kinds of the rows the reader has yielded so far
    header,            \* parse_mlc_data: header (<< >> is None)
    run_count,         \* parse_mlc_data: run_count
    current_run_data,  \* parse_mlc_data: current_run_data
    all_runs_data,     \* parse_mlc_data: all_runs_data
    status,            \* the messages status_callback has been called with
    exc,               \* the exception in flight or propagated, "none" if none
    parsed,            \* what parse_mlc_data returned to its caller
    tolerance_mm,      \* the tolerance handed to analyze_data
    analysis,          \* what analyze_data returned to its caller
    calls,             \* the functions called so far, in order
    twin,              \* the locals of a second scan, of the same rows with every
                       \* non-numeric value token replaced by a number
    bank_name_str,     \* the argument of a direct call of extract_nominal_from_bank_name
    extracted,         \* what that call returned ([ok |-> FALSE]: it raised ValueError)
    generate_button,   \* state and text of App.generate_button
    after_queue,       \* callbacks scheduled with self.after(0, ...), oldest first
    threads            \* the threads started by start_report_generation

\* line 515, and lines 582, 593, 610: the Generate button as created and as
\* the scheduled lambdas configure it
ButtonNormal == [state |-> "normal", text |-> "Generate Report"]

\* line 567: the Generate button while a report is being generated
ButtonGenerating == [state |-> "disabled", text |-> "Generating..."]

vars == <<caller, pc, rows, header, run_count, current_run_data, all_runs_data,
          status, exc, parsed, tolerance_mm, analysis, calls, twin,
          bank_name_str, extracted, generate_button, after_queue, threads>>

NotReturned == [returned |-> FALSE]
NoLocals == [header |-> << >>, run_count |-> 0, current_run_data |-> << >>,
             all_runs_data |-> << >>, status |-> << >>, exc |-> "none"]
\* the row a row kind becomes when its non-numeric token is made a number
Corrected(kind) == IF kind = "invalid" THEN "full" ELSE kind
DEFAULT_TOLERANCE_MM == Mm(10)

\* the locals of parse_mlc_data as one record
ParserState ==
    [header |-> header, run_count |-> run_count,
     current_run_data |-> current_run_data, all_runs_data |-> all_runs_data,
     status |-> status, exc |-> exc]

SetParserState(ps) ==
    /\ header' = ps.header
    /\ run_count' = ps.run_count
    /\ current_run_data' = ps.current_run_data
    /\ all_runs_data' = ps.all_runs_data
    /\ status' = ps.status
    /\ exc' = ps.exc

Init ==
    /\ caller \in {"App", "direct"}
    /\ pc = "start"
    /\ rows = << >>
    /\ header = << >>
    /\ run_count = 0
    /\ current_run_data = << >>
    /\ all_runs_data = << >>
    /\ status = << >>
    /\ exc = "none"
    /\ parsed = NotReturned
    /\ tolerance_mm = DEFAULT_TOLERANCE_MM
    /\ analysis = NotReturned
    /\ calls = << >>
    /\ twin = NoLocals
    /\ bank_name_str = << >>
    /\ extracted = NotReturned
    /\ generate_button = ButtonNormal
    /\ after_queue = << >>
    /\ threads = << >>

\* lines 576-578 and 40-46: parse_mlc_data is called
CallParse ==
    /\ pc = "start"
    /\ pc' = "open"
    /\ calls' = Append(calls, "parse_mlc_data")
    /\ status' = status \o (IF caller = "App" THEN <<"Parsing CSV data...">> ELSE << >>)
                        \o <<"Parsing CSV data...">>
    /\ UNCHANGED <<generate_button, after_queue, threads, bank_name_str, extracted, caller, rows, header, run_count, current_run_data, all_runs_data,
                   exc, parsed, tolerance_mm, analysis, twin>>

\* lines 49-52: open() succeeds
OpenFile ==
    /\ pc = "open"
    /\ pc' = "scan"
    /\ UNCHANGED <<generate_button, after_queue, threads, bank_name_str, extracted, caller, rows, header, run_count, current_run_data, all_runs_data,
                   status, exc, parsed, tolerance_mm, analysis, calls, twin>>

\* the locals of parse_mlc_data and the reader are gone once it has returned
\* or raised; status and exc outlive the call
LeaveParse(ps) ==
    /\ header' = << >>
    /\ run_count' = 0
    /\ current_run_data' = << >>
    /\ all_runs_data' = << >>
    /\ rows' = << >>
    /\ twin' = NoLocals
    /\ status' = ps.status
    /\ exc' = ps.exc

\* lines 98-125: the code after the try block; parse_mlc_data returns
ReturnFrom(ps) ==
    \E r \in {Organize(ps.all_runs_data)} :
       /\ LeaveParse([ps EXCEPT !.status = @ \o r.msgs])
       /\ parsed' = [returned |-> TRUE, data |-> r.data, runs |-> r.runs]
       /\ pc' = "returned"

\* lines 94-96: the exception leaves parse_mlc_data (the handler re-raises);
\* were it not re-raised, control would reach line 98
Propagate(ps) ==
    IF ps.exc # "none"
    THEN LeaveParse(ps) /\ pc' = "raised" /\ parsed' = parsed
    ELSE ReturnFrom(ps)

\* lines 49, 53, 94-96: open() or a read of the file raises
IOFailure ==
    /\ pc \in {"open", "scan"}
    /\ Propagate(ParseExcept(ParserState, "IOError"))
    /\ UNCHANGED <<generate_button, after_queue, threads, bank_name_str, extracted, caller, tolerance_mm, analysis, calls>>

\* lines 53-90 (and 94-96 when the row raises): the reader yields one more row
ReadRow ==
    /\ pc = "scan"
    /\ Len(rows) < MaxRows
    /\ \E kind \in RowKinds :
          \E ps \in {ScanRow(ParserState, Cells(kind))} :
              IF ps.exc # "none"
              THEN Propagate(ps)
              ELSE /\ SetParserState(ps)
                   /\ rows' = Append(rows, kind)
                   /\ twin' = ScanRow(twin, Cells(Corrected(kind)))
                   /\ pc' = "scan"
                   /\ parsed' = parsed
    /\ UNCHANGED <<generate_button, after_queue, threads, bank_name_str, extracted, caller, tolerance_mm, analysis, calls>>

\* lines 91-93 and 98-125: the reader is exhausted; parse_mlc_data returns
EndOfInput ==
    /\ pc = "scan"
    /\ ReturnFrom(EndOfRows(ParserState))
    /\ UNCHANGED <<generate_button, after_queue, threads, bank_name_str, extracted, caller, tolerance_mm, analysis, calls>>

\* lines 580-583 and 609-610: App.run_analysis_and_report gives up on an
\* empty result
AppNoData ==
    /\ pc = "returned"
    /\ caller = "App"
    /\ parsed.data = << >> \/ parsed.runs = 0
    /\ status' = Append(status, "No data parsed or no runs found. Report generation aborted.")
    /\ pc' = "done"
    /\ UNCHANGED <<generate_button, after_queue, threads, bank_name_str, extracted, caller, rows, header, run_count, current_run_data, all_runs_data,
                   exc, parsed, tolerance_mm, analysis, calls, twin>>

\* lines 586-589 (App) or the direct call: analyze_data on what parse returned
CallAnalyze ==
    /\ pc = "returned"
    /\ caller = "App" => ~(parsed.data = << >> \/ parsed.runs = 0)
    /\ calls' = Append(calls, "analyze_data")
    /\ \E a \in {analyze_data(parsed.data, parsed.runs, tolerance_mm)} :
           IF a.exc # "none"
           THEN /\ exc' = a.exc
                /\ pc' = "raised"
                /\ UNCHANGED <<analysis, status>>
           ELSE /\ analysis' = [returned |-> TRUE, df |-> a.df,
                                ranked_inaccurate |-> a.ranked_inaccurate,
                                ranked_imprecise |-> a.ranked_imprecise,
                                ranked_by_range |-> a.ranked_by_range]
                /\ status' = status \o a.msgs
                /\ pc' = "analyzed"
                /\ exc' = exc
    /\ UNCHANGED <<generate_button, after_queue, threads, bank_name_str, extracted, caller, rows, header, run_count, current_run_data, all_runs_data,
                   parsed, tolerance_mm, twin>>

\* lines 591-601 and 342: an empty table ends the report; otherwise
\* build_pdf_report is called
AppAfterAnalyze ==
    /\ pc = "analyzed"
    /\ caller = "App"
    /\ IF analysis.df = << >>
       THEN /\ status' = Append(status, "Analysis resulted in empty data. Report generation aborted.")
            /\ pc' = "done"
            /\ calls' = calls
       ELSE /\ status' = Append(status, "Building PDF report...")
            /\ pc' = "building"
            /\ calls' = Append(calls, "build_pdf_report")
    /\ UNCHANGED <<generate_button, after_queue, threads, bank_name_str, extracted, caller, rows, header, run_count, current_run_data, all_runs_data,
                   exc, parsed, tolerance_mm, analysis, twin>>

\* lines 343-469, 603, 609-610: build_pdf_report completes
BuildPdfReturns ==
    /\ pc = "building"
    /\ status' = Append(status, "PDF report successfully generated")
    /\ pc' = "done"
    /\ UNCHANGED <<generate_button, after_queue, threads, bank_name_str, extracted, caller, rows, header, run_count, current_run_data, all_runs_data,
                   exc, parsed, tolerance_mm, analysis, calls, twin>>

\* lines 343-469: plotting or document assembly raises
BuildPdfRaises ==
    /\ pc = "building"
    /\ exc' = "Exception"
    /\ pc' = "raised"
    /\ UNCHANGED <<generate_button, after_queue, threads, bank_name_str, extracted, caller, rows, header, run_count, current_run_data, all_runs_data,
                   status, parsed, tolerance_mm, analysis, calls, twin>>

\* lines 605-610: the handler of run_analysis_and_report
AppExcept ==
    /\ pc = "raised"
    /\ caller = "App"
    /\ status' = Append(status, "An error occurred")
    /\ pc' = "done"
    /\ UNCHANGED <<generate_button, after_queue, threads, bank_name_str, extracted, caller, rows, header, run_count, current_run_data, all_runs_data,
                   exc, parsed, tolerance_mm, analysis, calls, twin>>

Next ==
    \/ CallParse \/ OpenFile \/ IOFailure \/ ReadRow \/ EndOfInput
    \/ AppNoData \/ CallAnalyze \/ AppAfterAnalyze
    \/ BuildPdfReturns \/ BuildPdfRaises \/ AppExcept

Spec == Init /\ [][Next]_vars

\* ------------------------------------------- analyze_data called directly
\* analyze_data handed a sample set built by hand, as the tests of
\* test_mlc_analyzer.py do: one bank, leaf 0 with any samples, leaf 1 all
\* missing or all out of tolerance, the other leaves all missing.
sInvalidBankName ==
    <<"I","n","v","a","l","i","d"," ","B","a","n","k"," ","N","a","m","e">>
DirectBanks == {LeftP20, RightM60, sInvalidBankName}
\* sample values in tenths of a millimetre; 0 stands for a missing sample
SampleTenths == {0, -10, 10, 11}
RECURSIVE SampleSeqs(_)
SampleSeqs(n) ==
    IF n = 0 THEN {<< >>}
    ELSE {Append(q, t) : q \in SampleSeqs(n - 1), t \in SampleTenths}
Samples(nominal, q) ==
    [i \in 1..Len(q) |-> IF q[i] = 0 THEN NaN ELSE Mm(10 * nominal + q[i])]
DirectData(bank, q, far) ==
    LET nominal == IF bank = RightM60 THEN -60 ELSE 20
    IN  << [k |-> bank,
            v |-> [leaf \in 1..NUM_LEAVES |->
                     IF leaf = 1 THEN Samples(nominal, q)
                     ELSE IF leaf = 2 /\ far
                          THEN [i \in 1..Len(q) |-> Mm(10 * nominal + 15)]
                          ELSE [i \in 1..Len(q) |-> NaN]]] >>

\* one bank, two runs: leaf 0 measured 20.1 and 20.3, leaf 1 measured 18.0
\* and 19.0, the other leaves missing
TwoRunExample ==
    << [k |-> LeftP20,
        v |-> [leaf \in 1..NUM_LEAVES |->
                 IF leaf = 1 THEN <<Mm(201), Mm(203)>>
                 ELSE IF leaf = 2 THEN <<Mm(180), Mm(190)>>
                 ELSE <<NaN, NaN>>]] >>
\* one bank with three measured leaves: leaves 0 and 2 hold the same samples
\* (equal keys), leaf 1 is 1.5 mm off the nominal in every run
RankingData(bank, q) ==
    LET nominal == IF bank = RightM60 THEN -60 ELSE 20
    IN  << [k |-> bank,
            v |-> [leaf \in 1..NUM_LEAVES |->
                     IF leaf \in {1, 3} THEN Samples(nominal, q)
                     ELSE IF leaf = 2
                          THEN [i \in 1..Len(q) |-> Mm(10 * nominal + 15)]
                          ELSE [i \in 1..Len(q) |-> NaN]]] >>

InitAnalyze ==
    /\ caller = "direct"
    /\ pc = "returned"
    /\ rows = << >>
    /\ header = << >>
    /\ run_count = 0
    /\ current_run_data = << >>
    /\ all_runs_data = << >>
    /\ status = << >>
    /\ exc = "none"
    /\ \/ \E n \in 0..MaxRuns, bank \in DirectBanks, far \in BOOLEAN :
            \E q \in SampleSeqs(n) :
               parsed = [returned |-> TRUE, data |-> DirectData(bank, q, far), runs |-> n]
       \/ parsed = [returned |-> TRUE, data |-> TwoRunExample, runs |-> 2]
       \/ \E n \in 1..MaxRuns, bank \in {LeftP20, RightM60} :
            \E q \in SampleSeqs(n) :
               parsed = [returned |-> TRUE, data |-> RankingData(bank, q), runs |-> n]
    /\ tolerance_mm \in {Mm(0), DEFAULT_TOLERANCE_MM}
    /\ analysis = NotReturned
    /\ calls = << >>
    /\ twin = NoLocals
    /\ bank_name_str = << >>
    /\ extracted = NotReturned
    /\ generate_button = ButtonNormal
    /\ after_queue = << >>
    /\ threads = << >>

NextAnalyze == CallAnalyze

SpecAnalyze == InitAnalyze /\ [][NextAnalyze]_vars

\* ----------------------------- extract_nominal_from_bank_name called directly
\* the labels handed to the function: a beginning followed by an ending
LabelPrefixes ==
    { << >>, sLeft \o sMLCBank, sRight \o sMLCBank,
      <<"B","a","n","k"," ","N","a","m","e"," ">>,
      sLeft \o sMLCBank \o <<"1","0","0"," ">>, <<"1","2">> }
LabelSuffixes ==
    { << >>, Suffixes[1], Suffixes[2], Suffixes[3], Suffixes[4], Suffixes[5],
      <<"+","0">>, <<"7">>, <<"+">>, <<"N","o","N","u","m","b","e","r">>,
      <<"2","0"," ">>, <<"+","-","5">>, <<"1",".","5">>,
      <<"+","2","0","\n">>, <<"x","\n">>, sBank100 }
LabelInputs == {p \o t : p \in LabelPrefixes, t \in LabelSuffixes}

InitNominal ==
    /\ caller = "extract"
    /\ pc = "start"
    /\ rows = << >>
    /\ header = << >>
    /\ run_count = 0
    /\ current_run_data = << >>
    /\ all_runs_data = << >>
    /\ status = << >>
    /\ exc = "none"
    /\ parsed = NotReturned
    /\ tolerance_mm = DEFAULT_TOLERANCE_MM
    /\ analysis = NotReturned
    /\ calls = << >>
    /\ twin = NoLocals
    /\ bank_name_str \in LabelInputs
    /\ extracted = NotReturned
    /\ generate_button = ButtonNormal
    /\ after_queue = << >>
    /\ threads = << >>

\* lines 30-36: the call returns or raises ValueError
ExtractNominal ==
    /\ pc = "start"
    /\ caller = "extract"
    /\ extracted' = [returned |-> TRUE] @@ extract_nominal_from_bank_name(bank_name_str)
    /\ exc' = IF extract_nominal_from_bank_name(bank_name_str).ok THEN "none" ELSE "ValueError"
    /\ pc' = IF extract_nominal_from_bank_name(bank_name_str).ok THEN "returned" ELSE "raised"
    /\ UNCHANGED <<generate_button, after_queue, threads, bank_name_str, caller, rows, header, run_count, current_run_data,
                   all_runs_data, status, parsed, tolerance_mm, analysis, calls, twin>>

NextNominal == ExtractNominal

SpecNominal == InitNominal /\ [][NextNominal]_vars

\* -------------------------------------------------------------- the GUI
\* App.start_report_generation runs in the main loop; each click that gets
\* through starts a thread running App.run_analysis_and_report.  The thread
\* touches the widgets only through self.after(0, ...): after_queue holds the
\* callbacks scheduled and not yet run, in the order scheduled, and the main
\* loop runs them one at a time, interleaved with the clicks it handles.
\* What parse_mlc_data, analyze_data and build_pdf_report return or raise is
\* drawn with \E; status is the text of the status box.
MaxClicks == 2      \* clicks on Generate that get through

engine == <<caller, pc, rows, header, run_count, current_run_data, all_runs_data,
            exc, parsed, tolerance_mm, analysis, calls, twin, bank_name_str, extracted>>

StatusCallback(msg) == [kind |-> "update_status", msg |-> msg]
ButtonCallback == [kind |-> "enable_button", msg |-> ""]
DialogCallback(kind) == [kind |-> kind, msg |-> ""]

InitGui ==
    /\ caller = "App"
    /\ pc = "start"
    /\ rows = << >>
    /\ header = << >>
    /\ run_count = 0
    /\ current_run_data = << >>
    /\ all_runs_data = << >>
    /\ status = << >>
    /\ exc = "none"
    /\ parsed = NotReturned
    /\ tolerance_mm = DEFAULT_TOLERANCE_MM
    /\ analysis = NotReturned
    /\ calls = << >>
    /\ twin = NoLocals
    /\ bank_name_str = << >>
    /\ extracted = NotReturned
    /\ generate_button = ButtonNormal
    /\ after_queue = << >>
    /\ threads = << >>

\* lines 550-572: a click on Generate; a disabled CTkButton does not call its
\* command.  With a tolerance that is no number, or a path missing, the
\* function returns after an error dialog.
StartReportGeneration ==
    /\ generate_button.state = "normal"
    /\ Len(threads) < MaxClicks
    /\ \E inputs_ok \in BOOLEAN :
          IF inputs_ok
          THEN /\ status' = <<"Starting report generation...">>
               /\ generate_button' = ButtonGenerating
               /\ threads' = Append(threads, [pc |-> "start", outcome |-> "running"])
               /\ after_queue' = after_queue
          ELSE UNCHANGED <<status, generate_button, threads, after_queue>>
    /\ UNCHANGED engine

\* the thread t moves to position p having scheduled the callbacks cbs
ThreadMoves(t, p, outcome, cbs) ==
    /\ threads' = [threads EXCEPT ![t] = [pc |-> p, outcome |-> outcome]]
    /\ after_queue' = after_queue \o cbs
    /\ UNCHANGED <<status, generate_button>>
    /\ UNCHANGED engine

\* lines 576-578: the first status update and the call of parse_mlc_data
ThreadParse(t) ==
    /\ threads[t].pc = "start"
    /\ \E result \in {"no data", "data", "raises"} :
          CASE result = "no data" ->
                 ThreadMoves(t, "nodata", "running",
                     <<StatusCallback("Parsing CSV data..."),
                       StatusCallback("Warning: No data blocks parsed.")>>)
            [] result = "data" ->
                 ThreadMoves(t, "parsed", "running",
                     <<StatusCallback("Parsing CSV data..."),
                       StatusCallback("CSV parsing complete.")>>)
            [] result = "raises" ->
                 ThreadMoves(t, "except", "running",
                     <<StatusCallback("Parsing CSV data..."),
                       StatusCallback("Failed to read or parse CSV")>>)

\* lines 580-583: nothing parsed
ThreadNoData(t) ==
    /\ threads[t].pc = "nodata"
    /\ ThreadMoves(t, "finally", "no data",
           <<StatusCallback("No data parsed or no runs found. Report generation aborted."),
             ButtonCallback>>)

\* lines 586-594: analyze_data and the test of the table
ThreadAnalyze(t) ==
    /\ threads[t].pc = "parsed"
    /\ \E result \in {"rows", "empty", "raises"} :
          CASE result = "rows" ->
                 ThreadMoves(t, "analyzed", "running",
                     <<StatusCallback("Data analysis complete.")>>)
            [] result = "empty" ->
                 ThreadMoves(t, "finally", "empty analysis",
                     <<StatusCallback("Data analysis complete."),
                       StatusCallback("Analysis resulted in empty data. Report generation aborted."),
                       ButtonCallback>>)
            [] result = "raises" ->
                 ThreadMoves(t, "except", "running", << >>)

\* lines 597-603: build_pdf_report and the success dialog
ThreadBuild(t) ==
    /\ threads[t].pc = "analyzed"
    /\ \E result \in {"built", "raises"} :
          CASE result = "built" ->
                 ThreadMoves(t, "finally", "report built",
                     <<StatusCallback("Building PDF report..."),
                       StatusCallback("PDF report successfully generated"),
                       DialogCallback("showinfo")>>)
            [] result = "raises" ->
                 ThreadMoves(t, "except", "running",
                     <<StatusCallback("Building PDF report...")>>)

\* lines 605-608: the exception handler
ThreadExcept(t) ==
    /\ threads[t].pc = "except"
    /\ ThreadMoves(t, "finally", "exception",
           <<StatusCallback("An error occurred"), DialogCallback("showerror")>>)

\* mutant: no finally block
FinallyCallbacks_None == << >>

\* lines 609-610: what the finally block schedules
FinallyCallbacks == <<ButtonCallback>>

\* lines 609-610: the finally block; the thread ends
ThreadFinally(t) ==
    /\ threads[t].pc = "finally"
    /\ ThreadMoves(t, "finished", threads[t].outcome, FinallyCallbacks)

\* the main loop runs the callback scheduled first: update_status (lines
\* 523-528), the lambda that enables the button (lines 582, 593, 610), or a
\* message box (lines 603, 608), which the user dismisses
MainLoopCallback ==
    /\ after_queue # << >>
    /\ after_queue' = Tail(after_queue)
    /\ status' = IF Head(after_queue).kind = "update_status"
                 THEN Append(status, Head(after_queue).msg) ELSE status
    /\ generate_button' = IF Head(after_queue).kind = "enable_button"
                          THEN ButtonNormal ELSE generate_button
    /\ UNCHANGED threads
    /\ UNCHANGED engine

NextGui ==
    \/ StartReportGeneration
    \/ MainLoopCallback
    \/ \E t \in 1..Len(threads) : ThreadParse(t)
    \/ \E t \in 1..Len(threads) : ThreadNoData(t)
    \/ \E t \in 1..Len(threads) : ThreadAnalyze(t)
    \/ \E t \in 1..Len(threads) : ThreadBuild(t)
    \/ \E t \in 1..Len(threads) : ThreadExcept(t)
    \/ \E t \in 1..Len(threads) : ThreadFinally(t)

SpecGui == InitGui /\ [][NextGui]_vars

\* a step of the thread t
ThreadStep(t) ==
    \/ ThreadParse(t) \/ ThreadNoData(t) \/ ThreadAnalyze(t)
    \/ ThreadBuild(t) \/ ThreadExcept(t) \/ ThreadFinally(t)

\* the main loop keeps running the scheduled callbacks and every thread
\* keeps running; nobody has to click
SpecGuiLive ==
    /\ SpecGui
    /\ WF_vars(MainLoopCallback)
    /\ \A t \in 1..MaxClicks : WF_vars(t <= Len(threads) /\ ThreadStep(t))

\* ================================================================== claims
\* what the rows of the vocabulary say, read off their text
BankKinds == {"full", "short", "long", "invalid", "novalues"}
KindLabel(kind) == IF kind \in {"full", "short", "invalid"} THEN LeftP20 ELSE RightM60
\* the vector a bank row of each kind is to give, as numbers
ExpectedVector(kind) ==
    CASE kind = "full"  -> [i \in 1..80 |-> Mm(200 + i)]
      [] kind = "short" -> [i \in 1..80 |-> IF i = 1 THEN Mm(210)
                                            ELSE IF i = 2 THEN Mm(211) ELSE NaN]
      [] kind = "long"  -> [i \in 1..80 |-> Mm(i - 700)]
      [] OTHER          -> [i \in 1..80 |-> NaN]

\* the runs held by a scan: the emitted ones, then the accumulator if it
\* holds anything
RunsOf(emitted, accumulator) ==
    emitted \o (IF accumulator # << >> THEN <<accumulator>> ELSE << >>)
LastRow == rows'[Len(rows')]
RowScanned == pc = "scan" /\ pc' = "scan" /\ rows' # rows

\* the header-delimited blocks of the rows read so far
HeaderIdx == {i \in 1..Len(rows) : rows[i] = "header"}
BlockRows(h) == {j \in (h + 1)..Len(rows) : \A m \in (h + 1)..j : rows[m] # "header"}
BankRowsOf(h) == {j \in BlockRows(h) : rows[j] \in BankKinds}
DataHeaders == {h \in HeaderIdx : BankRowsOf(h) # {}}
NthDataHeader(n) ==
    CHOOSE h \in DataHeaders : Cardinality({g \in DataHeaders : g < h}) = n - 1
KeySet(d) == {d[i].k : i \in 1..Len(d)}

\* C1: every vector held in the accumulator or in an emitted run has exactly
\* 80 entries, and a recognised bank row after a header stores: its k < 80
\* values in order then 80-k missing markers; the first 80 of its k > 80
\* values; 80 missing markers when it has no value or a value that is not a
\* number.
C1_Length ==
    \A d \in {current_run_data} \cup {all_runs_data[i] : i \in 1..Len(all_runs_data)} :
        \A i \in 1..Len(d) : Len(d[i].v) = 80
C1_Stored ==
    (RowScanned /\ header # << >> /\ LastRow \in BankKinds)
        => /\ DictHas(current_run_data', KindLabel(LastRow))
           /\ DictGet(current_run_data', KindLabel(LastRow)) = ExpectedVector(LastRow)
C1_VectorLength80 == [](C1_Length) /\ [][C1_Stored]_vars
C1_Witness ==
    /\ pc = "scan"
    /\ DictHas(current_run_data, LeftP20)
    /\ DictHas(current_run_data, RightM60)
    /\ DictGet(current_run_data, LeftP20)[3] = NaN
    /\ DictGet(current_run_data, LeftP20)[2] = Mm(211)
    /\ DictGet(current_run_data, RightM60)[80] = Mm(-620)

\* C2: the sample set parse_mlc_data returns has, for each of its banks, 80
\* per-leaf sequences of length = the returned run count, and entry i of the
\* sequence of (bank, leaf) is entry leaf of run i's vector for the bank, or
\* a missing marker when run i has no vector for the bank.
C2_Returned ==
    (pc = "scan" /\ pc' = "returned")
        => LET runs == RunsOf(all_runs_data, current_run_data)
           IN  \A b \in 1..Len(parsed'.data) :
                  /\ Len(parsed'.data[b].v) = 80
                  /\ \A leaf \in 1..80 :
                        /\ Len(parsed'.data[b].v[leaf]) = parsed'.runs
                        /\ \A i \in 1..parsed'.runs :
                              /\ i <= Len(runs)
                              /\ parsed'.data[b].v[leaf][i] =
                                    IF parsed'.data[b].k \in KeySet(runs[i])
                                    THEN DictGet(runs[i], parsed'.data[b].k)[leaf]
                                    ELSE NaN
C2_AggregatedShape == [][C2_Returned]_vars
C2_Witness ==
    /\ pc = "returned"
    /\ parsed.runs = 2
    /\ \E b \in 1..Len(parsed.data) :
          /\ ~IsNaN(parsed.data[b].v[80][1])
          /\ \A leaf \in 1..80 : IsNaN(parsed.data[b].v[leaf][2])
    /\ \A i \in 1..Len(status) :
          status[i] \notin {"Error converting value", "Warning: No numeric values found."}

\* C3: a run is emitted exactly when a header row or the end of the input is
\* reached with a non-empty accumulator (a header then empties the
\* accumulator); the runs are, in file order, the header-delimited blocks
\* holding at least one recognised bank row, the last one needing no header
\* after it; the returned run count is the number of runs emitted.
C3_Blocks ==
    pc = "scan" =>
        LET runs == RunsOf(all_runs_data, current_run_data)
        IN  /\ Len(runs) = Cardinality(DataHeaders)
            /\ Len(all_runs_data) =
                  Cardinality({h \in DataHeaders : \E g \in HeaderIdx : g > h})
            /\ run_count = Len(all_runs_data)
            /\ \A n \in 1..Len(runs) :
                  KeySet(runs[n]) = {KindLabel(rows[j]) : j \in BankRowsOf(NthDataHeader(n))}
C3_Emit ==
    /\ RowScanned =>
          IF LastRow = "header" /\ current_run_data # << >>
          THEN /\ all_runs_data' = Append(all_runs_data, current_run_data)
               /\ current_run_data' = << >>
          ELSE /\ all_runs_data' = all_runs_data
               /\ LastRow = "header" => current_run_data' = << >>
    /\ (pc = "scan" /\ pc' = "returned") =>
          parsed'.runs = Len(all_runs_data) + (IF current_run_data # << >> THEN 1 ELSE 0)
C3_RunsAreBlocks == [](C3_Blocks) /\ [][C3_Emit]_vars
C3_Witness ==
    /\ pc = "returned"
    /\ parsed.runs = 2
    /\ Len(parsed.data) = 1


\* C4: a row whose cell count makes the scan raise an index error does not
\* end parse_mlc_data: nothing but a failure to open or read the file makes
\* the scan end in an exception.
C4_MalformedRowSkipped ==
    [][(pc = "scan" /\ pc' = "raised") => exc' = "IOError"]_vars

\* C5: a recognised bank row after a header with a value token that is not
\* a number stores 80 missing markers for its bank, no ValueError leaves
\* parse_mlc_data, the run is counted, and every other vector of every run
\* is what the scan of the same rows with the token made a number holds.
InRuns == RunsOf(all_runs_data, current_run_data)
TwinRuns == RunsOf(twin.all_runs_data, twin.current_run_data)
C5_Others ==
    /\ exc # "ValueError"
    /\ pc = "scan" =>
          /\ Len(InRuns) = Len(TwinRuns)
          /\ Len(all_runs_data) = Len(twin.all_runs_data)
          /\ run_count = twin.run_count
          /\ \A n \in 1..Len(InRuns) :
                /\ DictKeys(InRuns[n]) = DictKeys(TwinRuns[n])
                /\ \A b \in 1..Len(InRuns[n]) :
                      InRuns[n][b].v # TwinRuns[n][b].v
                          => /\ InRuns[n][b].k = LeftP20
                             /\ \E j \in BankRowsOf(NthDataHeader(n)) : rows[j] = "invalid"
                             /\ InRuns[n][b].v = [i \in 1..80 |-> NaN]
C5_Stored ==
    /\ (RowScanned /\ header # << >> /\ LastRow = "invalid")
          => /\ DictGet(current_run_data', LeftP20) = [i \in 1..80 |-> NaN]
             /\ DictGet(twin'.current_run_data, LeftP20) = ExpectedVector("full")
    /\ (pc = "scan" /\ pc' = "returned") => parsed'.runs = Len(TwinRuns)
C5_InvalidTokenIsolated == [](C5_Others) /\ [][C5_Stored]_vars
C5_Witness ==
    /\ pc = "scan"
    /\ \E j \in 1..Len(rows) : rows[j] = "invalid"
    /\ DictHas(current_run_data, LeftP20)
    /\ DictGet(current_run_data, LeftP20) = [i \in 1..80 |-> NaN]
    /\ DictGet(twin.current_run_data, LeftP20) = ExpectedVector("full")
    /\ DictHas(current_run_data, RightM60)
    /\ DictGet(current_run_data, RightM60) = ExpectedVector("long")
    /\ Len(all_runs_data) = 0

\* C6: when the file cannot be opened or read, parse_mlc_data reports the
\* failure to the callback and raises; nothing is returned, and neither
\* analyze_data nor build_pdf_report is called.
Reported(msg) == \E i \in 1..Len(status) : status[i] = msg
C6_IOFailureAborts ==
    /\ exc = "IOError" => Reported("Failed to read or parse CSV: IOError")
    /\ Reported("Failed to read or parse CSV: IOError")
          => /\ exc = "IOError"
             /\ pc \in {"raised", "done"}
             /\ parsed = NotReturned
             /\ analysis = NotReturned
             /\ calls = <<"parse_mlc_data">>
C6_Witness ==
    /\ exc = "IOError"
    /\ pc = "done"
    /\ caller = "App"
    /\ Reported("Warning: Padding/truncating.")
    /\ Reported("Failed to read or parse CSV: IOError")

\* C7: on a readable input without a header row parse_mlc_data returns the
\* empty mapping and 0 without raising, and analyze_data called with run
\* count 0 returns an empty table and three empty leaderboards.
C7_Step ==
    /\ (pc = "scan" /\ pc' # "scan" /\ HeaderIdx = {} /\ exc' # "IOError")
          => /\ pc' = "returned"
             /\ parsed'.data = << >>
             /\ parsed'.runs = 0
    /\ (pc = "returned" /\ calls' # calls /\ parsed.runs = 0)
          => /\ pc' = "analyzed"
             /\ analysis'.df = << >>
             /\ analysis'.ranked_inaccurate = << >>
             /\ analysis'.ranked_imprecise = << >>
             /\ analysis'.ranked_by_range = << >>
C7_NoHeaderNoData == [][C7_Step]_vars

\* ---- analyze_data handed a sample set directly (SpecAnalyze)
NominalOf(label) == IF label = LeftP20 THEN 20 ELSE -60
Analysed(b) == parsed.runs # 0 /\ parsed.data[b].k \in {LeftP20, RightM60}
RowsOf(b, leaf) ==
    {i \in 1..Len(analysis.df) :
        analysis.df[i].Bank = parsed.data[b].k /\ analysis.df[i].LeafIndex = leaf - 1}
ValidOf(b, leaf) ==
    {i \in 1..Len(parsed.data[b].v[leaf]) : ~parsed.data[b].v[leaf][i].nan}
OnBoard(board, r) ==
    \E i \in 1..Len(board) : board[i].LeafID = r.LeafID /\ board[i].Bank = r.Bank

\* C8: in every analysis row, 'Out of Tolerance' is true exactly when the
\* deviation is defined and its absolute value is strictly greater than
\* the tolerance.
C8_OutOfTolerance ==
    pc = "analyzed" =>
        \A i \in 1..Len(analysis.df) :
            analysis.df[i].OutOfTolerance
                <=> /\ ~analysis.df[i].Deviation.nan
                    /\ \/ analysis.df[i].Deviation.v > tolerance_mm.v
                       \/ 0 - analysis.df[i].Deviation.v > tolerance_mm.v
C8_Witness ==
    /\ pc = "analyzed"
    /\ tolerance_mm = Mm(10)
    /\ Len(analysis.df) = 80
    /\ \E i, j, k \in 1..3 :
          /\ analysis.df[i].Deviation = Mm(10) /\ ~analysis.df[i].OutOfTolerance
          /\ analysis.df[j].Deviation = Mm(15) /\ analysis.df[j].OutOfTolerance
          /\ analysis.df[k].Deviation = NaN /\ ~analysis.df[k].OutOfTolerance

\* C9: for a bank whose nominal can be extracted and a run count other than
\* 0, a leaf whose samples are all missing has exactly one analysis row,
\* with mean, standard deviation, deviation and range undefined and 'Out of
\* Tolerance' false, and is on none of the three leaderboards.
C9_AllMissing ==
    pc = "analyzed" =>
        \A b \in 1..Len(parsed.data) : \A leaf \in 1..80 :
            (Analysed(b) /\ ValidOf(b, leaf) = {})
                => /\ Cardinality(RowsOf(b, leaf)) = 1
                   /\ \A i \in RowsOf(b, leaf) :
                         /\ analysis.df[i].Mean = NaN
                         /\ analysis.df[i].StdDev = NaN
                         /\ analysis.df[i].Deviation = NaN
                         /\ analysis.df[i].Range = NaN
                         /\ analysis.df[i].OutOfTolerance = FALSE
                         /\ ~OnBoard(analysis.ranked_inaccurate, analysis.df[i])
                         /\ ~OnBoard(analysis.ranked_imprecise, analysis.df[i])
                         /\ ~OnBoard(analysis.ranked_by_range, analysis.df[i])
C9_Witness ==
    /\ pc = "analyzed"
    /\ parsed.runs = 2
    /\ parsed.data[1].k = LeftP20
    /\ parsed.data[1].v[1] = <<NaN, NaN>>
    /\ Len(analysis.df) = 80
    /\ analysis.df[1].Mean = NaN
    /\ Len(analysis.ranked_inaccurate) = 1
    /\ Len(analysis.ranked_imprecise) = 1
    /\ Len(analysis.ranked_by_range) = 1

\* C10: a leaf with exactly one sample v that is not missing, in a bank of
\* nominal n, has mean v, deviation v - n, standard deviation 0 and range 0.
C10_SingleMeasurement ==
    pc = "analyzed" =>
        \A b \in 1..Len(parsed.data) : \A leaf \in 1..80 :
            (Analysed(b) /\ Cardinality(ValidOf(b, leaf)) = 1)
                => LET v == parsed.data[b].v[leaf][CHOOSE i \in ValidOf(b, leaf) : TRUE]
                   IN  /\ RowsOf(b, leaf) # {}
                       /\ \A i \in RowsOf(b, leaf) :
                             /\ analysis.df[i].Mean = v
                             /\ analysis.df[i].Deviation =
                                   Num(v.v - NominalOf(parsed.data[b].k) * Res)
                             /\ analysis.df[i].StdDev = Num(0)
                             /\ analysis.df[i].Range = Num(0)
C10_Witness ==
    /\ pc = "analyzed"
    /\ parsed.data[1].k = RightM60
    /\ parsed.data[1].v[1] = <<NaN, Mm(-589), NaN>>
    /\ analysis.df[1].Mean = Mm(-589)
    /\ analysis.df[1].Deviation = Mm(11)
    /\ analysis.df[1].StdDev = Num(0)

\* the non-missing samples of a leaf as offsets from the nominal of its bank
Offsets(b, leaf) ==
    LET xs == parsed.data[b].v[leaf]
        Valid(x) == ~x.nan
        ys == SelectSeq(xs, Valid)
    IN  [i \in 1..Len(ys) |-> ys[i].v - NominalOf(parsed.data[b].k) * Res]
RECURSIVE SeqSum(_)
SeqSum(ds) == IF ds = << >> THEN 0 ELSE Head(ds) + SeqSum(Tail(ds))
RECURSIVE SeqSumSq(_)
SeqSumSq(ds) == IF ds = << >> THEN 0 ELSE Head(ds) * Head(ds) + SeqSumSq(Tail(ds))

\* C11: for a leaf with N >= 2 non-missing samples, the mean is their
\* arithmetic mean, the deviation is the mean minus the nominal, the range is
\* max - min, and the standard deviation s is the population one,
\* s^2 = (N * sum(d^2) - sum(d)^2) / N^2 (to the unit of the model); for
\* tolerance 1.0 the samples [20.1, 20.3] and [18.0, 19.0] of bank +20 give
\* 20.2, 0.2, 0.1, 0.2, not flagged, and 18.5, -1.5, 0.5, 1.0, flagged.
C11_General ==
    \A b \in 1..Len(parsed.data) : \A leaf \in 1..80 :
        (Analysed(b) /\ Cardinality(ValidOf(b, leaf)) >= 2)
            => LET ds == Offsets(b, leaf)
                   N == Len(ds)
                   X == N * SeqSumSq(ds) - SeqSum(ds) * SeqSum(ds)
               IN  /\ RowsOf(b, leaf) # {}
                   /\ \A i \in RowsOf(b, leaf) :
                        LET r == analysis.df[i]
                        IN  /\ ~r.Mean.nan /\ ~r.Deviation.nan
                            /\ ~r.StdDev.nan /\ ~r.Range.nan
                            /\ N * r.Deviation.v = SeqSum(ds)
                            /\ r.Mean.v = r.Deviation.v + NominalOf(r.Bank) * Res
                            /\ \E j \in 1..N : \E k \in 1..N :
                                  /\ r.Range.v = ds[j] - ds[k]
                                  /\ \A m \in 1..N : ds[k] <= ds[m] /\ ds[m] <= ds[j]
                            /\ r.StdDev.v >= 0
                            /\ (r.StdDev.v * N) * (r.StdDev.v * N) <= X
                            /\ X < ((r.StdDev.v + 1) * N) * ((r.StdDev.v + 1) * N)
C11_Example ==
    (/\ parsed.runs = 2
     /\ parsed.data[1].k = LeftP20
     /\ parsed.data[1].v[1] = <<Mm(201), Mm(203)>>
     /\ parsed.data[1].v[2] = <<Mm(180), Mm(190)>>
     /\ tolerance_mm = Mm(10))
        => /\ analysis.df[1].Mean = Mm(202) /\ analysis.df[1].Deviation = Mm(2)
           /\ analysis.df[1].StdDev = Mm(1) /\ analysis.df[1].Range = Mm(2)
           /\ ~analysis.df[1].OutOfTolerance
           /\ analysis.df[2].Mean = Mm(185) /\ analysis.df[2].Deviation = Mm(-15)
           /\ analysis.df[2].StdDev = Mm(5) /\ analysis.df[2].Range = Mm(10)
           /\ analysis.df[2].OutOfTolerance
C11_TwoOrMoreSamples ==
    pc = "analyzed" => C11_General /\ C11_Example
C11_Witness ==
    /\ pc = "analyzed"
    /\ tolerance_mm = Mm(10)
    /\ parsed.data[1].v[1] = <<Mm(201), Mm(203)>>
    /\ parsed.data[1].v[2] = <<Mm(180), Mm(190)>>
    /\ analysis.df[1].StdDev = Mm(1)
    /\ analysis.df[2].OutOfTolerance

\* C12: each leaderboard holds exactly the analysis rows whose key (absolute
\* deviation, standard deviation, range) is defined, in descending order of
\* the key, rows of equal key in the order of the analysis table.
KeyOf(r, which) ==
    CASE which = "deviation" ->
             IF r.Deviation.nan THEN NaN
             ELSE Num(IF r.Deviation.v < 0 THEN 0 - r.Deviation.v ELSE r.Deviation.v)
      [] which = "std"   -> r.StdDev
      [] which = "range" -> r.Range
RowOfEntry(e) ==
    {i \in 1..Len(analysis.df) :
        analysis.df[i].LeafID = e.LeafID /\ analysis.df[i].Bank = e.Bank}
BoardRanked(board, which) ==
    /\ Len(board) = Cardinality({i \in 1..Len(analysis.df) : ~KeyOf(analysis.df[i], which).nan})
    /\ \A j \in 1..Len(board) :
          /\ ~board[j].Value.nan
          /\ Cardinality(RowOfEntry(board[j])) = 1
          /\ \A i \in RowOfEntry(board[j]) : KeyOf(analysis.df[i], which) = board[j].Value
    /\ \A j \in 1..Len(board) : \A k \in (j + 1)..Len(board) :
          /\ board[j].Value.v >= board[k].Value.v
          /\ board[j].Value.v = board[k].Value.v
                => \A a \in RowOfEntry(board[j]) : \A b \in RowOfEntry(board[k]) : a < b
C12_Leaderboards ==
    pc = "analyzed" =>
        /\ BoardRanked(analysis.ranked_inaccurate, "deviation")
        /\ BoardRanked(analysis.ranked_imprecise, "std")
        /\ BoardRanked(analysis.ranked_by_range, "range")
C12_Witness ==
    /\ pc = "analyzed"
    /\ Len(analysis.df) = 80
    /\ Len(analysis.ranked_imprecise) = 3
    /\ analysis.ranked_imprecise[1].LeafID = <<"L", 1>>
    /\ analysis.ranked_imprecise[2].LeafID = <<"L", 3>>
    /\ analysis.ranked_imprecise[3].LeafID = <<"L", 2>>
    /\ analysis.ranked_imprecise[1].Value = analysis.ranked_imprecise[2].Value
    /\ analysis.ranked_inaccurate[1].LeafID = <<"L", 2>>
    /\ analysis.ranked_inaccurate[2].LeafID = <<"L", 1>>
    /\ analysis.ranked_inaccurate[3].LeafID = <<"L", 3>>

\* C13: when analyze_data has returned on the sample set parse_mlc_data
\* returned with a run count above 0, the analysis table has exactly one row
\* for every bank of the set and every leaf index 0..79 (80 rows for each
\* bank label of run 1), bank by bank and leaf by leaf, none twice, none
\* missing.
C13_OneRowPerLeaf ==
    (pc = "analyzed" /\ parsed.runs > 0) =>
        /\ Len(analysis.df) = 80 * Len(parsed.data)
        /\ \A b \in 1..Len(parsed.data) :
              /\ \A c \in 1..Len(parsed.data) : parsed.data[c].k = parsed.data[b].k => c = b
              /\ \A leaf \in 1..80 :
                    /\ analysis.df[80 * (b - 1) + leaf].Bank = parsed.data[b].k
                    /\ analysis.df[80 * (b - 1) + leaf].LeafIndex = leaf - 1
C13_Witness ==
    /\ pc = "analyzed"
    /\ parsed.runs = 1
    /\ Len(parsed.data) = 2
    /\ parsed.data[1].k = RightM60
    /\ parsed.data[2].k = LeftP20
    /\ \A leaf \in 1..80 : parsed.data[2].v[leaf] = <<NaN>>
    /\ Len(analysis.df) = 160
    /\ analysis.df[160].Bank = LeftP20
    /\ analysis.df[160].LeafIndex = 79

\* C14: extract_nominal_from_bank_name returns the integer, with its sign,
\* of the signed-integer token that ends the label (an optional + or -
\* immediately followed by digits, at the end of the string); for a label
\* without one it returns 100 if the label contains "Bank 100" and raises
\* otherwise.
TrailingDigits(s) ==
    CHOOSE k \in 0..Len(s) :
        /\ \A i \in (Len(s) - k + 1)..Len(s) : s[i] \in {"0","1","2","3","4","5","6","7","8","9"}
        /\ k < Len(s) => s[Len(s) - k] \notin {"0","1","2","3","4","5","6","7","8","9"}
ClaimedNominal(s) ==
    LET k == TrailingDigits(s)
        magnitude == DigitsVal(SubSeq(s, Len(s) - k + 1, Len(s)))
    IN  IF k > 0
        THEN [ok |-> TRUE,
              val |-> IF k < Len(s) /\ s[Len(s) - k] = "-" THEN 0 - magnitude ELSE magnitude]
        ELSE IF \E i \in 1..(Len(s) - 7) : SubSeq(s, i, i + 7) = <<"B","a","n","k"," ","1","0","0">>
        THEN [ok |-> TRUE, val |-> 100]
        ELSE [ok |-> FALSE, val |-> 0]
C14_NominalFromSuffix ==
    (caller = "extract" /\ pc # "start") =>
        /\ extracted.ok = ClaimedNominal(bank_name_str).ok
        /\ extracted.ok => extracted.val = ClaimedNominal(bank_name_str).val
        /\ extracted.ok <=> pc = "returned"

\* C15: the keys of the sample set parse_mlc_data returns are the bank
\* labels of the first emitted run, in order; a label found only in later
\* runs is no key and its values are nowhere in the set; a first-run label
\* missing from run i has a missing marker at position i of all 80 leaves.
C15_Returned ==
    (pc = "scan" /\ pc' = "returned" /\ RunsOf(all_runs_data, current_run_data) # << >>)
        => LET runs == RunsOf(all_runs_data, current_run_data)
               keys == [b \in 1..Len(parsed'.data) |-> parsed'.data[b].k]
           IN  /\ keys = [b \in 1..Len(runs[1]) |-> runs[1][b].k]
               /\ \A i \in 2..Len(runs) : \A c \in 1..Len(runs[i]) :
                     runs[i][c].k \notin KeySet(runs[1])
                        => /\ \A b \in 1..Len(keys) : keys[b] # runs[i][c].k
                           /\ \A b \in 1..Len(keys) : \A leaf \in 1..80 :
                                 \/ parsed'.data[b].v[leaf][i].nan
                                 \/ /\ keys[b] \in KeySet(runs[i])
                                    /\ parsed'.data[b].v[leaf][i] = DictGet(runs[i], keys[b])[leaf]
               /\ \A i \in 2..Len(runs) : \A b \in 1..Len(keys) :
                     keys[b] \notin KeySet(runs[i])
                        => \A leaf \in 1..80 : parsed'.data[b].v[leaf][i] = NaN
C15_KeysFromFirstRun == [][C15_Returned]_vars
C15_Witness ==
    /\ pc = "returned"
    /\ parsed.runs = 2
    /\ Len(parsed.data) = 1
    /\ parsed.data[1].k = LeftP20
    /\ \A leaf \in 1..80 : parsed.data[1].v[leaf] = <<Mm(200 + leaf), NaN>>
    /\ Reported("Warning: Padding/truncating.")

\* C16: each run holds one vector for each bank label of its block, and it
\* is the vector of the last row of the block with that label, also when
\* that row is the one with a non-numeric token (all missing markers) and a
\* valid row of the label came before it; this holds for every run, so the
\* rows of one block change no vector of another run.
LastRowOf(n, label) ==
    CHOOSE j \in BankRowsOf(NthDataHeader(n)) :
        /\ KindLabel(rows[j]) = label
        /\ \A m \in BankRowsOf(NthDataHeader(n)) : KindLabel(rows[m]) = label => m <= j
C16_LastRowWins ==
    pc = "scan" =>
        \A n \in 1..Len(InRuns) :
            /\ \A b \in 1..Len(InRuns[n]) : \A c \in 1..Len(InRuns[n]) :
                  InRuns[n][b].k = InRuns[n][c].k => b = c
            /\ \A b \in 1..Len(InRuns[n]) :
                  /\ \E j \in BankRowsOf(NthDataHeader(n)) : KindLabel(rows[j]) = InRuns[n][b].k
                  /\ InRuns[n][b].v = ExpectedVector(rows[LastRowOf(n, InRuns[n][b].k)])
C16_Witness ==
    /\ pc = "scan"
    /\ rows = <<"header", "full", "invalid">>
    /\ Len(current_run_data) = 1
    /\ current_run_data[1].k = LeftP20
    /\ current_run_data[1].v = [i \in 1..80 |-> NaN]

\* C17: for the file of test_parse_mlc_data_invalid_numeric (a header row,
\* then the row of "Left MLC Bank +20" written with indentation in front of
\* the label and with a non-numeric value, then the indentation that ends
\* the text) parse_mlc_data returns run count 1 and a set with the key
\* "Left MLC Bank +20" whose leaf 0 and leaf 1 samples of that run are missing
\* markers.
C17_Returned ==
    (pc = "scan" /\ pc' = "returned" /\ rows = <<"header", "indented", "spaces">>)
        => /\ parsed'.runs = 1
           /\ \E b \in 1..Len(parsed'.data) :
                 /\ parsed'.data[b].k = LeftP20
                 /\ parsed'.data[b].v[1] = <<NaN>>
                 /\ parsed'.data[b].v[2] = <<NaN>>
C17_IndentedInvalidRow == [][C17_Returned]_vars

\* C18: recognised bank rows in front of the first header row are ignored:
\* until a header row has been read nothing is accumulated or emitted and
\* the run count is 0; the first header row emits no run; the first run is
\* emitted by a later header row or by the end of the input.
C18_BeforeHeader ==
    (pc = "scan" /\ HeaderIdx = {})
        => /\ header = << >>
           /\ current_run_data = << >>
           /\ all_runs_data = << >>
           /\ run_count = 0
C18_FirstEmission ==
    /\ (RowScanned /\ LastRow = "header" /\ HeaderIdx = {})
          => /\ header' # << >>
             /\ all_runs_data' = << >>
             /\ current_run_data' = << >>
             /\ run_count' = 0
    /\ (RowScanned /\ all_runs_data = << >> /\ all_runs_data' # << >>)
          => /\ LastRow = "header"
             /\ HeaderIdx # {}
             /\ all_runs_data' = <<current_run_data>>
    /\ (pc = "scan" /\ pc' = "returned" /\ all_runs_data = << >> /\ parsed'.runs # 0)
          => /\ HeaderIdx # {}
             /\ current_run_data # << >>
             /\ parsed'.runs = 1
C18_FirstHeaderEmitsNothing == [](C18_BeforeHeader) /\ [][C18_FirstEmission]_vars
C18_Witness ==
    /\ pc = "scan"
    /\ rows = <<"full", "long", "header">>
    /\ header # << >>
    /\ current_run_data = << >>
    /\ all_runs_data = << >>
    /\ run_count = 0

\* C19: reading a row never ends the scan, and a row that is blank, or is
\* neither a header row nor a row whose first cell is a recognised bank
\* label, leaves the accumulator, the emitted runs, the run count and the
\* header unchanged.
C19_Step ==
    (pc = "scan" /\ pc' # "returned" /\ exc' # "IOError")
        => /\ pc' = "scan"
           /\ (rows' # rows /\ LastRow \notin ({"header"} \cup BankKinds))
                 => /\ header' = header
                    /\ run_count' = run_count
                    /\ current_run_data' = current_run_data
                    /\ all_runs_data' = all_runs_data
C19_IgnoredRowsChangeNothing == [][C19_Step]_vars

\* C20: no emitted run is empty; when parse_mlc_data has returned, the
\* sample set is non-empty exactly when the run count is above 0; the
\* message of the 'No valid run data to organize' branch is never issued.
C20_Emitted ==
    /\ \A i \in 1..Len(all_runs_data) : all_runs_data[i] # << >>
    /\ (caller # "extract" /\ parsed.returned /\ calls # << >>)
          => (parsed.data # << >> <=> parsed.runs > 0)
    /\ ~Reported("Warning: No valid run data to organize.")
C20_Return ==
    (pc = "scan" /\ pc' = "returned")
        => /\ parsed'.data # << >> <=> parsed'.runs > 0
           /\ parsed'.runs > 0 <=> RunsOf(all_runs_data, current_run_data) # << >>
C20_NonEmptyIffRuns == [](C20_Emitted) /\ [][C20_Return]_vars
C20_Witness ==
    /\ pc = "returned"
    /\ parsed.runs = 1
    /\ Len(parsed.data) = 2
    /\ Reported("Warning: No numeric values found.")
    /\ Reported("Error converting value")
    /\ Reported("CSV parsing complete.")

\* C21: while a thread started by start_report_generation has not finished
\* run_analysis_and_report (its finally block included), the Generate button
\* is disabled, and at most one such thread is running.
Running == {t \in 1..Len(threads) : threads[t].pc # "finished"}
C21_ButtonDisabledWhileRunning ==
    /\ Running # {} => generate_button.state = "disabled"
    /\ Cardinality(Running) <= 1

\* C22: once start_report_generation has disabled the Generate button and
\* started the thread, the button is eventually enabled again with the text
\* "Generate Report", whatever run_analysis_and_report returns or raises, as
\* long as the main loop keeps running the scheduled callbacks.
C22_ButtonEventuallyEnabled ==
    (generate_button = ButtonGenerating) ~> (generate_button = ButtonNormal)

\* every thread has ended, one of them in the exception handler, every
\* callback has run and the button is enabled
C22_Witness ==
    /\ threads # << >>
    /\ Running = {}
    /\ \E t \in 1..Len(threads) : threads[t].outcome = "exception"
    /\ after_queue = << >>
    /\ generate_button = ButtonNormal

=============================================================================
